---- MODULE Spec2Model ----
(***************************************************************************)
(* Room Reservations Dashboard (src/app.py).                               *)
(*                                                                         *)
(* The script is one linear run: load -> normalize -> date filter ->       *)
(* Location/Department filters -> charts -> timeline (Gantt).  Each block  *)
(* of the script is one action; pc is the position of the run.  A widget   *)
(* (file uploader, date range, multiselect, day picker) returns a value    *)
(* chosen by the user, drawn here from a small set.                        *)
(*                                                                         *)
(* Dates are day ordinals of the year 2025 (1 = January 1st), clock times  *)
(* are minutes since midnight, instants are minutes since the start of     *)
(* 2025-01-01 shifted by one day (ordinal * 1440 + minutes).               *)
(***************************************************************************)
EXTENDS Integers, Sequences, FiniteSets

VARIABLES
    upload,       \* the file uploader's value: a table, or NoFile (None)
    csv_file,     \* reservations.csv next to app.py: a table, or NoFile
    df_raw,       \* load_reservations' result
    df,           \* the normalized frame
    pc,           \* position of the script run
    d_start,      \* date range widget, first day
    d_end,        \* date range widget, last day
    filtered,     \* the filtered frame
    loc_filter,   \* Location multiselect
    dept_filter,  \* Department multiselect
    loc_counts,   \* top_n_with_other(filtered["Location"], 8)
    dept_counts,  \* top_n_with_other(filtered["Department"], 8)
    gantt_base,   \* df under the Location/Department selections
    gantt_days,   \* sorted unique days of gantt_base
    gantt_day_picker, \* the day picker's value (widget state)
    picked_day,   \* the day shown: the picker's value, snapped
    gantt_src,    \* the rows drawn on the timeline
    series,       \* top_n_with_other's argument (SpecTop)
    top_n,        \* top_n_with_other's argument (SpecTop)
    out           \* top_n_with_other's result (SpecTop)

inVars == <<upload, csv_file>>
filterVars == <<d_start, d_end, filtered, loc_filter, dept_filter>>
chartVars == <<loc_counts, dept_counts>>
ganttVars == <<gantt_base, gantt_days, gantt_day_picker, picked_day, gantt_src>>
topVars == <<series, top_n, out>>

vars == <<inVars, df_raw, df, pc, filterVars, chartVars, ganttVars, topVars>>

\* ------------------------------------------------------------------ bounds

\* Rows of a table in the normalization runs.
MaxRows == 2
\* Rows of a table in the dashboard runs.
MaxDashRows == 2
\* Length of a category series given to top_n_with_other.
MaxLen == 3
\* Largest top_n given to top_n_with_other.
MaxTopN == 2

\* ------------------------------------------------------------ null values

\* pandas' NaT / NaN of a datetime, number or date column (errors="coerce").
NaT == -1
\* pandas' NaN of a text column (an empty CSV cell).
NaN == "NaN"

\* 24 hours, in minutes: pd.Timedelta(days=1).
DayMinutes == 1440

\* ------------------------------------------------------- parsing (pandas)

DaysInMonth(m) ==
    CASE m \in {1, 3, 5, 7, 8, 10, 12} -> 31
      [] m \in {4, 6, 9, 11} -> 30
      [] OTHER -> 28

RECURSIVE DaysBefore(_)
DaysBefore(m) == IF m <= 1 THEN 0 ELSE DaysBefore(m - 1) + DaysInMonth(m - 1)

\* pd.to_datetime(text, errors="coerce") of a date written <<month, day>>
\* ("9/3/2025" is <<9, 3>>): the day ordinal, NaT when it is no date.
ParseDate(s) ==
    IF s[1] \in 1..12 /\ s[2] >= 1 /\ s[2] <= DaysInMonth(s[1])
    THEN DaysBefore(s[1]) + s[2]
    ELSE NaT

\* pd.to_datetime(text, format="%I:%M%p", errors="coerce") of a time written
\* <<hour, minute, suffix>> ("9:00AM" is <<9, 0, "AM">>): minutes since
\* midnight, NaT when the text does not match the format.
ParseTime(s) ==
    IF s[1] \in 1..12 /\ s[2] \in 0..59 /\ s[3] \in {"AM", "PM"}
    THEN ((s[1] % 12) + (IF s[3] = "PM" THEN 12 ELSE 0)) * 60 + s[2]
    ELSE NaT

\* Series.dt.hour / Series.dt.minute: NaN on NaT.
Hour(t) == IF t = NaT THEN NaT ELSE t \div 60
Minute(t) == IF t = NaT THEN NaT ELSE t % 60

\* Series.fillna(0)
FillNa0(x) == IF x = NaT THEN 0 ELSE x

\* Series.dt.day_name(), as the index into Monday..Sunday (0 = Monday);
\* 2025-01-01 is a Wednesday.
DayName(d) == IF d = NaT THEN NaT ELSE (d + 1) % 7

\* EventDate.dt.normalize() + to_timedelta(hour.fillna(0), "h")
\*                          + to_timedelta(minute.fillna(0), "m")
CombineDT(d, t) ==
    IF d = NaT THEN NaT
    ELSE d * DayMinutes + FillNa0(Hour(t)) * 60 + FillNa0(Minute(t))

\* mask_cross_midnight, with <= for <.
MaskCrossMidnightLe(s, e) == s # NaT /\ e # NaT /\ e <= s

\* mask_cross_midnight of one row.
MaskCrossMidnight(s, e) == s # NaT /\ e # NaT /\ e < s

\* One row through the normalization block.
NormalizeRow(r) ==
    LET date == ParseDate(r.EventDate)
        st == ParseTime(r.StartTime)
        et == ParseTime(r.EndTime)
        sdt == CombineDT(date, st)
        edt == CombineDT(date, et)
    IN  [EventDate |-> date,
         StartTime |-> r.StartTime,
         EndTime |-> r.EndTime,
         Location |-> r.Location,
         Department |-> r.Department,
         StartTime_dt |-> st,
         StartHour |-> Hour(st),
         DayOfWeek |-> DayName(date),
         EndTime_dt |-> et,
         StartDT |-> sdt,
         EndDT |-> IF MaskCrossMidnight(sdt, edt) THEN edt + DayMinutes ELSE edt]

\* The normalization block with the rows of unparsable date dropped.
NormalizeDropNaT(rows) ==
    LET all == [i \in 1..Len(rows) |-> NormalizeRow(rows[i])]
        HasDate(r) == r.EventDate # NaT
    IN  SelectSeq(all, HasDate)

\* The normalization block: column assignments, row by row.
NormalizeFrame(rows) == [i \in 1..Len(rows) |-> NormalizeRow(rows[i])]

\* ------------------------------------------------------------------ inputs

NoFile == [present |-> FALSE, columns |-> {}, rows |-> <<>>]

SeqsUpTo(S, n) == UNION {[1..k -> S] : k \in 0..n}

Columns == {"EventId", "EventDate", "StartTime", "EndTime", "Location", "Department"}

\* "9/3/2025" and the unparsable "13/1/2025".
NormDates == {<<9, 3>>, <<13, 1>>}
\* "9:00AM", "11:30PM", "12:30AM" and the unparsable "13:00PM".
NormTimes == {<<9, 0, "AM">>, <<11, 30, "PM">>, <<12, 30, "AM">>, <<13, 0, "PM">>}

NormRows ==
    [EventDate : NormDates, StartTime : NormTimes, EndTime : NormTimes,
     Location : {"A"}, Department : {"X"}]

NormTables ==
    [present : {TRUE}, columns : {Columns, Columns \ {"EventId"}},
     rows : SeqsUpTo(NormRows, MaxRows)]

\* "8/31/2025", "9/4/2025" and the unparsable "13/1/2025".
DashDates == {<<8, 31>>, <<9, 4>>, <<13, 1>>}

DashRows ==
    {[EventDate |-> d, StartTime |-> <<9, 0, "AM">>, EndTime |-> <<11, 30, "PM">>,
      Location |-> p[1], Department |-> p[2]] :
        d \in DashDates, p \in {<<"A", "X">>, <<"B", "Y">>, <<NaN, "X">>}}

DashTables ==
    [present : {TRUE}, columns : {Columns}, rows : SeqsUpTo(DashRows, MaxDashRows)]

\* The days the date range widget is set to: 8/31, 9/1 and 9/4.
RangeDays == {ParseDate(<<8, 31>>), ParseDate(<<9, 1>>), ParseDate(<<9, 4>>)}

\* ------------------------------------------------------------------- load

\* load_reservations(upload)
load_reservations(up, disk) == IF up.present THEN up ELSE disk

LoadReservations ==
    /\ pc = "start"
    /\ df_raw' = load_reservations(upload, csv_file)
    /\ pc' = "loaded"
    /\ UNCHANGED <<inVars, df, filterVars, chartVars, ganttVars, topVars>>

\* if df_raw is None: st.info(...); st.stop()
StopNoData ==
    /\ pc = "loaded"
    /\ ~df_raw.present
    /\ pc' = "stopped"
    /\ UNCHANGED <<inVars, df_raw, df, filterVars, chartVars, ganttVars, topVars>>

\* df = df_raw.copy() ... df.loc[mask_cross_midnight, "EndDT"] = ...
Normalize ==
    /\ pc = "loaded"
    /\ df_raw.present
    /\ df' = NormalizeFrame(df_raw.rows)
    /\ pc' = "normalized"
    /\ UNCHANGED <<inVars, df_raw, filterVars, chartVars, ganttVars, topVars>>

Idle ==
    /\ df = <<>> /\ d_start = NaT /\ d_end = NaT /\ filtered = <<>>
    /\ loc_filter = {} /\ dept_filter = {} /\ loc_counts = <<>>
    /\ dept_counts = <<>> /\ gantt_base = <<>> /\ gantt_days = <<>>
    /\ gantt_day_picker = NaT /\ picked_day = NaT /\ gantt_src = <<>>

TopIdle == series = <<>> /\ top_n = 0 /\ out = <<>>

InitNorm ==
    /\ pc = "start"
    /\ df_raw = NoFile
    /\ \/ upload \in NormTables /\ csv_file = NoFile
       \/ upload = NoFile /\ csv_file \in {NoFile} \cup NormTables
    /\ Idle
    /\ TopIdle

NextNorm == LoadReservations \/ StopNoData \/ Normalize

SpecNorm == InitNorm /\ [][NextNorm]_vars

\* ------------------------------------------------- claims on normalization

\* eventDate + time as the data model words it: null when either is null.
NullableInstant(d, t) == IF d = NaT \/ t = NaT THEN NaT ELSE d * DayMinutes + t

\* C1: normalization is total and 1:1: the normalized frame has exactly one
\* row per raw row, in the raw order (row i carries raw row i's StartTime and
\* EndTime text and its parsed date), also when a date or a time of the row
\* is unparsable.
C1_NormalizationTotal ==
    pc = "normalized" =>
        /\ Len(df) = Len(df_raw.rows)
        /\ \A i \in 1..Len(df_raw.rows) :
            /\ df[i].StartTime = df_raw.rows[i].StartTime
            /\ df[i].EndTime = df_raw.rows[i].EndTime
            /\ df[i].EventDate = ParseDate(df_raw.rows[i].EventDate)

\* A two-row frame with an unparsable date, an unparsable start time and an
\* unparsable end time among its rows has been normalized.
C1_Witness ==
    /\ pc = "normalized"
    /\ Len(df_raw.rows) = 2
    /\ \E i \in 1..Len(df) : df[i].EventDate = NaT
    /\ \E i \in 1..Len(df) : df[i].StartTime_dt = NaT
    /\ \E i \in 1..Len(df) : df[i].EndTime_dt = NaT

\* C2: for every row whose StartDT and EndDT are both defined, EndDT is
\* eventDate + endTime + one day exactly when the end clock time is strictly
\* earlier than the start clock time, and eventDate + endTime otherwise.
C2_RolloverExactlyWhenEndBeforeStart ==
    pc = "normalized" =>
        \A i \in 1..Len(df) :
            LET r == df[i]
                rolls == /\ r.StartTime_dt # NaT
                         /\ r.EndTime_dt # NaT
                         /\ r.EndTime_dt < r.StartTime_dt
                sameDay == NullableInstant(r.EventDate, r.EndTime_dt)
            IN  (r.StartDT # NaT /\ r.EndDT # NaT) =>
                    r.EndDT = IF rolls THEN sameDay + DayMinutes ELSE sameDay

\* C2 on the rows whose date, start time and end time all parse: the
\* rollover rule holds there (the rows C2 fails on have an unparsable time).
C2_RolloverOnParsedRows ==
    pc = "normalized" =>
        \A i \in 1..Len(df) :
            LET r == df[i]
            IN  (r.EventDate # NaT /\ r.StartTime_dt # NaT /\ r.EndTime_dt # NaT) =>
                    r.EndDT = r.EventDate * DayMinutes + r.EndTime_dt
                              + (IF r.EndTime_dt < r.StartTime_dt THEN DayMinutes ELSE 0)

\* C3: a row whose date is null, or whose start (end) time is null, has a
\* null StartDT (EndDT).
C3_NullTimeGivesNullInstant ==
    pc = "normalized" =>
        \A i \in 1..Len(df) :
            /\ (df[i].EventDate = NaT \/ df[i].StartTime_dt = NaT) => df[i].StartDT = NaT
            /\ (df[i].EventDate = NaT \/ df[i].EndTime_dt = NaT) => df[i].EndDT = NaT

\* C8: a loaded table without the EventId column ends in an error state; the
\* run never reaches normalization with the column absent.
C8_NoIdentifierIsAnError ==
    (df_raw.present /\ "EventId" \notin df_raw.columns /\ pc # "loaded") => pc = "error"

\* C10: every normalized row with StartDT and EndDT both defined has
\* StartDT <= EndDT < StartDT + one day.
C10_EndWithinOneDayOfStart ==
    pc = "normalized" =>
        \A i \in 1..Len(df) :
            (df[i].StartDT # NaT /\ df[i].EndDT # NaT) =>
                /\ df[i].StartDT <= df[i].EndDT
                /\ df[i].EndDT < df[i].StartDT + DayMinutes

\* A normalized frame holds a row that crosses midnight with both times
\* parsed, and a row with a parsed start time and an unparsable end time.
C10_Witness ==
    /\ pc = "normalized"
    /\ \E i \in 1..Len(df) :
        /\ df[i].EventDate # NaT
        /\ df[i].StartTime_dt # NaT /\ df[i].EndTime_dt # NaT
        /\ df[i].EndTime_dt < df[i].StartTime_dt
        /\ df[i].EndDT # NaT
    /\ \E i \in 1..Len(df) :
        /\ df[i].EventDate # NaT
        /\ df[i].StartTime_dt # NaT /\ df[i].EndTime_dt = NaT
        /\ df[i].EndDT # NaT

\* -------------------------------------------------------- top_n_with_other

\* Series.dropna()
DropNa(s) ==
    LET NotNull(x) == x # NaN
    IN  SelectSeq(s, NotNull)

\* The distinct values of a series, in the order of first appearance.
RECURSIVE Uniques(_, _)
Uniques(s, acc) ==
    IF s = <<>> THEN acc
    ELSE Uniques(Tail(s),
                 IF \E i \in 1..Len(acc) : acc[i] = Head(s)
                 THEN acc ELSE Append(acc, Head(s)))

CountIn(s, v) == Cardinality({i \in 1..Len(s) : s[i] = v})

\* A stable sort by descending Count: a row goes after the rows counting
\* at least as much.
RECURSIVE InsertDesc(_, _)
InsertDesc(sq, row) ==
    IF sq = <<>> THEN <<row>>
    ELSE IF Head(sq).Count >= row.Count
         THEN <<Head(sq)>> \o InsertDesc(Tail(sq), row)
         ELSE <<row>> \o sq

RECURSIVE SortDesc(_, _)
SortDesc(rows, acc) ==
    IF rows = <<>> THEN acc ELSE SortDesc(Tail(rows), InsertDesc(acc, Head(rows)))

\* Series.value_counts(): one row per distinct value, by descending count,
\* ties in the order of first appearance.
value_counts(s) ==
    LET u == Uniques(s, <<>>)
    IN  SortDesc([i \in 1..Len(u) |-> [Category |-> u[i], Count |-> CountIn(s, u[i])]],
                 <<>>)

\* Series.sum() of the Count column.
RECURSIVE SumCounts(_)
SumCounts(rows) == IF rows = <<>> THEN 0 ELSE Head(rows).Count + SumCounts(Tail(rows))

Min(a, b) == IF a <= b THEN a ELSE b

\* top_n_with_other with other = vc.iloc[top_n + 1:].sum().
top_n_with_other_skip(s, n) ==
    LET vc == value_counts(DropNa(s))
        top == SubSeq(vc, 1, Min(n, Len(vc)))
        other == SumCounts(SubSeq(vc, n + 2, Len(vc)))
    IN  IF other > 0
        THEN Append(top, [Category |-> "Other", Count |-> other])
        ELSE top

\* top_n_with_other(series, top_n), for top_n >= 0.
top_n_with_other(s, n) ==
    LET vc == value_counts(DropNa(s))
        top == SubSeq(vc, 1, Min(n, Len(vc)))
        other == SumCounts(SubSeq(vc, n + 1, Len(vc)))
    IN  IF other > 0
        THEN Append(top, [Category |-> "Other", Count |-> other])
        ELSE top

\* The category values of a series: three names, one of them "Other", and
\* the empty cell.
Categories == {NaN, "A", "B", "Other"}

TopNWithOther ==
    /\ pc = "top_start"
    /\ out' = top_n_with_other(series, top_n)
    /\ pc' = "top_done"
    /\ UNCHANGED <<inVars, df_raw, df, filterVars, chartVars, ganttVars, series, top_n>>

InitTop ==
    /\ pc = "top_start"
    /\ upload = NoFile /\ csv_file = NoFile /\ df_raw = NoFile
    /\ Idle
    /\ series \in SeqsUpTo(Categories, MaxLen)
    /\ top_n \in 0..MaxTopN
    /\ out = <<>>

NextTop == TopNWithOther

SpecTop == InitTop /\ [][NextTop]_vars

\* C4: top_n_with_other returns the top_n categories by descending count,
\* followed by an "Other" row exactly when the remainder (the non-null values
\* minus the top counts) is positive, counting that remainder; the counts of
\* the result sum to the number of non-null values.
C4_TopNPlusOther ==
    pc = "top_done" =>
        LET nonnull == DropNa(series)
            cats == {nonnull[i] : i \in 1..Len(nonnull)}
            k == Min(top_n, Cardinality(cats))
            other == Len(nonnull) - SumCounts(SubSeq(out, 1, Min(k, Len(out))))
        IN  /\ Len(out) = k + (IF other > 0 THEN 1 ELSE 0)
            /\ \A i \in 1..k :
                /\ out[i].Category \in cats
                /\ out[i].Count = CountIn(nonnull, out[i].Category)
            /\ \A i, j \in 1..k :
                i < j => /\ out[i].Count >= out[j].Count
                         /\ out[i].Category # out[j].Category
            /\ \A c \in cats \ {out[i].Category : i \in 1..k} :
                \A i \in 1..k : CountIn(nonnull, c) <= out[i].Count
            /\ other > 0 => out[k + 1] = [Category |-> "Other", Count |-> other]
            /\ SumCounts(out) = Len(nonnull)

\* A series with an empty cell and two categories has been bucketed with
\* top_n = 1: the result is the top category and an "Other" row.
C4_Witness ==
    /\ pc = "top_done"
    /\ top_n = 1
    /\ \E i \in 1..Len(series) : series[i] = NaN
    /\ Len(out) = 2
    /\ out[2].Category = "Other"
    /\ out[1].Category # "Other"

\* --------------------------------------------------------- sidebar filters

\* The date filter with the last day of the range left out.
DateFilterOpenEnd(frame, ds, de) ==
    LET InRange(r) == r.EventDate # NaT /\ r.EventDate >= ds /\ r.EventDate < de
    IN  SelectSeq(frame, InRange)

\* df[(df["EventDate"].dt.date >= d_start) & (df["EventDate"].dt.date <= d_end)]
\* A comparison with NaT is False.
DateFilter(frame, ds, de) ==
    LET InRange(r) == r.EventDate # NaT /\ r.EventDate >= ds /\ r.EventDate <= de
    IN  SelectSeq(frame, InRange)

\* frame["Location"].dropna().unique() / frame["Department"].dropna().unique()
LocOptions(frame) == {frame[i].Location : i \in 1..Len(frame)} \ {NaN}
DeptOptions(frame) == {frame[i].Department : i \in 1..Len(frame)} \ {NaN}

\* The Location filter without the "if loc_filter:" test.
LocIsinAlways(frame, sel) ==
    LET Sel(r) == r.Location \in sel
    IN  SelectSeq(frame, Sel)

\* if loc_filter: frame = frame[frame["Location"].isin(loc_filter)]
LocIsin(frame, sel) ==
    LET Sel(r) == r.Location \in sel
    IN  IF sel # {} THEN SelectSeq(frame, Sel) ELSE frame

\* if dept_filter: frame = frame[frame["Department"].isin(dept_filter)]
DeptIsin(frame, sel) ==
    LET Sel(r) == r.Department \in sel
    IN  IF sel # {} THEN SelectSeq(frame, Sel) ELSE frame

\* st.sidebar.date_input(value=(min_date.date(), max_date.date())): the frame
\* has no parsed date, min_date is NaT and NaT.date() raises.
DateInputFails ==
    /\ pc = "normalized"
    /\ \A i \in 1..Len(df) : df[i].EventDate = NaT
    /\ pc' = "crashed"
    /\ UNCHANGED <<inVars, df_raw, df, filterVars, chartVars, ganttVars, topVars>>

\* d_start, d_end = date_range; filtered = df[...].copy()
DateRangeFilter ==
    /\ pc = "normalized"
    /\ \E i \in 1..Len(df) : df[i].EventDate # NaT
    /\ \E ds \in RangeDays, de \in RangeDays :
        /\ ds <= de
        /\ d_start' = ds
        /\ d_end' = de
        /\ filtered' = DateFilter(df, ds, de)
    /\ pc' = "date_filtered"
    /\ UNCHANGED <<inVars, df_raw, df, loc_filter, dept_filter, chartVars,
                   ganttVars, topVars>>

\* loc_options ... dept_filter = multiselect(...); the two isin filters.
SelectFilters ==
    /\ pc = "date_filtered"
    /\ \E ls \in SUBSET LocOptions(filtered), dps \in SUBSET DeptOptions(filtered) :
        /\ loc_filter' = ls
        /\ dept_filter' = dps
        /\ filtered' = DeptIsin(LocIsin(filtered, ls), dps)
    /\ pc' = "filtered"
    /\ UNCHANGED <<inVars, df_raw, df, d_start, d_end, chartVars, ganttVars, topVars>>

\* ------------------------------------------------------- charts and Gantt

\* top_n = 8 of the two pie charts.
ChartTopN == 8

Column(frame, name) == [i \in 1..Len(frame) |-> frame[i][name]]

RECURSIVE SortedSeq(_)
SortedSeq(S) ==
    IF S = {} THEN <<>>
    ELSE LET m == CHOOSE x \in S : \A y \in S : x <= y
         IN  <<m>> \o SortedSeq(S \ {m})

\* gantt_base built from the date-filtered frame.
GanttBaseOfFiltered(frame, flt, locsel, deptsel) ==
    DeptIsin(LocIsin(flt, locsel), deptsel)

\* gantt_base = df.copy(), then the two isin filters; frame is df and flt is
\* filtered, the two frames in scope: the base is built from df.
GanttBase(frame, flt, locsel, deptsel) ==
    DeptIsin(LocIsin(frame, locsel), deptsel)

\* gantt_base["EventDate"].dropna().dt.date.sort_values().unique()
GanttDays(base) ==
    SortedSeq({base[i].EventDate : i \in 1..Len(base)} \ {NaT})

Abs(x) == IF x < 0 THEN 0 - x ELSE x

\* min(...) keeping the last of the days of least distance.
RECURSIVE NearestDayLast(_, _, _)
NearestDayLast(days, p, best) ==
    IF days = <<>> THEN best
    ELSE NearestDayLast(Tail(days), p,
                        IF Abs(Head(days) - p) <= Abs(best - p) THEN Head(days) ELSE best)

\* min(gantt_days_sorted, key=lambda d: abs(d - picked_day)), from the
\* candidate best on: Python's min keeps the first of the least keys.
RECURSIVE NearestDay(_, _, _)
NearestDay(days, p, best) ==
    IF days = <<>> THEN best
    ELSE NearestDay(Tail(days), p,
                    IF Abs(Head(days) - p) < Abs(best - p) THEN Head(days) ELSE best)

\* if picked_day not in set(gantt_days): picked_day = min(sorted(gantt_days), ...)
SnapDay(days, p) ==
    IF \E i \in 1..Len(days) : days[i] = p THEN p
    ELSE NearestDay(Tail(days), p, Head(days))

\* gantt_base[EventDate == picked_day].dropna(subset=[Location, StartDT, EndDT])
GanttSrc(base, day) ==
    LET Shown(r) == /\ r.EventDate = day
                    /\ r.Location # NaN /\ r.StartDT # NaT /\ r.EndDT # NaT
    IN  SelectSeq(base, Shown)

\* The day shown for a picker value: the snap block stands twice in the
\* script; nothing is picked when there are no days.
ShownDay(days, p) == IF days = <<>> THEN NaT ELSE SnapDay(days, SnapDay(days, p))

\* The tabs: the two pie charts' data and the timeline with its day picker
\* (any day from the first to the last day with events).
Render ==
    /\ pc = "filtered"
    /\ loc_counts' = top_n_with_other(Column(filtered, "Location"), ChartTopN)
    /\ dept_counts' = top_n_with_other(Column(filtered, "Department"), ChartTopN)
    /\ gantt_base' = GanttBase(df, filtered, loc_filter, dept_filter)
    /\ gantt_days' = GanttDays(gantt_base')
    /\ IF gantt_days' = <<>>
       THEN gantt_day_picker' = NaT
       ELSE gantt_day_picker' \in gantt_days'[1]..gantt_days'[Len(gantt_days')]
    /\ picked_day' = ShownDay(gantt_days', gantt_day_picker')
    /\ gantt_src' = GanttSrc(gantt_base', picked_day')
    /\ pc' = "rendered"
    /\ UNCHANGED <<inVars, df_raw, df, filterVars, topVars>>

\* The user changes the date range and nothing else: the script runs again
\* from the top over the same file, with the other widgets' values kept
\* (the selections are still among the options of the new range).
ChangeDateRange ==
    /\ pc \in {"rendered", "rerendered"}
    /\ \E ds \in RangeDays, de \in RangeDays :
        /\ ds <= de
        /\ <<ds, de>> # <<d_start, d_end>>
        /\ loc_filter \subseteq LocOptions(DateFilter(df, ds, de))
        /\ dept_filter \subseteq DeptOptions(DateFilter(df, ds, de))
        /\ d_start' = ds
        /\ d_end' = de
        /\ filtered' = DeptIsin(LocIsin(DateFilter(df, ds, de), loc_filter), dept_filter)
    /\ loc_counts' = top_n_with_other(Column(filtered', "Location"), ChartTopN)
    /\ dept_counts' = top_n_with_other(Column(filtered', "Department"), ChartTopN)
    /\ gantt_base' = GanttBase(df, filtered', loc_filter, dept_filter)
    /\ gantt_days' = GanttDays(gantt_base')
    /\ picked_day' = ShownDay(gantt_days', gantt_day_picker)
    /\ gantt_src' = GanttSrc(gantt_base', picked_day')
    /\ pc' = "rerendered"
    /\ UNCHANGED <<inVars, df_raw, df, loc_filter, dept_filter, gantt_day_picker, topVars>>

Init ==
    /\ pc = "start"
    /\ df_raw = NoFile
    /\ \/ upload \in DashTables /\ csv_file = NoFile
       \/ upload = NoFile /\ csv_file \in {NoFile} \cup DashTables
    /\ Idle
    /\ TopIdle

Next ==
    \/ LoadReservations
    \/ StopNoData
    \/ Normalize
    \/ DateInputFails
    \/ DateRangeFilter
    \/ SelectFilters
    \/ Render
    \/ ChangeDateRange

Spec == Init /\ [][Next]_vars

\* ---------------------------------------------------- claims on the views

RowsOf(frame) == {frame[i] : i \in 1..Len(frame)}

\* C5: the date range filter is inclusive at both ends: before the Location
\* and Department filters, a normalized row is in the filtered frame if and
\* only if its date is not null and d_start <= date <= d_end; each such row
\* is there once.
C5_DateRangeInclusive ==
    pc = "date_filtered" =>
        /\ \A i \in 1..Len(df) :
            (df[i] \in RowsOf(filtered)) <=>
                /\ df[i].EventDate # NaT
                /\ d_start <= df[i].EventDate
                /\ df[i].EventDate <= d_end
        /\ RowsOf(filtered) \subseteq RowsOf(df)
        /\ Len(filtered) =
               Cardinality({i \in 1..Len(df) :
                   /\ df[i].EventDate # NaT
                   /\ d_start <= df[i].EventDate
                   /\ df[i].EventDate <= d_end})

\* The date filter has kept a row dated exactly d_start and a row dated
\* exactly d_end, of a range of more than one day.
C5_Witness ==
    /\ pc = "date_filtered"
    /\ d_start < d_end
    /\ \E i \in 1..Len(filtered) : filtered[i].EventDate = d_start
    /\ \E i \in 1..Len(filtered) : filtered[i].EventDate = d_end

\* C6: the step that applies the Location and Department selections keeps a
\* row if and only if, for each of the two columns, the selection is empty or
\* holds the row's value; with both selections empty the frame is unchanged.
C6_EmptySelectionNoRestriction ==
    [][(pc = "date_filtered" /\ pc' = "filtered") =>
        /\ \A i \in 1..Len(filtered) :
            (filtered[i] \in RowsOf(filtered')) <=>
                /\ loc_filter' = {} \/ filtered[i].Location \in loc_filter'
                /\ dept_filter' = {} \/ filtered[i].Department \in dept_filter'
        /\ RowsOf(filtered') \subseteq RowsOf(filtered)
        /\ Len(filtered') =
               Cardinality({i \in 1..Len(filtered) :
                   /\ loc_filter' = {} \/ filtered[i].Location \in loc_filter'
                   /\ dept_filter' = {} \/ filtered[i].Department \in dept_filter'})
        /\ (loc_filter' = {} /\ dept_filter' = {}) => filtered' = filtered
    ]_vars

\* With no Location selected and one Department selected, a row without a
\* Location is kept and a row of another Department, in the date range, is not.
C6_Witness ==
    /\ pc = "filtered"
    /\ loc_filter = {}
    /\ dept_filter = {"X"}
    /\ \E i \in 1..Len(filtered) : filtered[i].Location = NaN
    /\ \E i \in 1..Len(df) :
        /\ df[i].Department = "Y"
        /\ df[i].EventDate # NaT
        /\ d_start <= df[i].EventDate /\ df[i].EventDate <= d_end

\* The days with events under the Location/Department selections.
DaysWithEvents ==
    {df[i].EventDate : i \in {j \in 1..Len(df) :
        /\ df[j].EventDate # NaT
        /\ loc_filter = {} \/ df[j].Location \in loc_filter
        /\ dept_filter = {} \/ df[j].Department \in dept_filter}}

====
